---- MODULE Spec2Model ----
(***************************************************************************)
(* TabManagerState (src/tabli-core/src/js/tabManagerState.js): an          *)
(* immutable record holding two indices over tab windows, windowIdMap     *)
(* (open windows by chrome window id) and bookmarkIdMap (saved windows by  *)
(* bookmark folder id), plus folderId, archiveFolderId and                 *)
(* currentWindowId.  Every method returns a new record; the model keeps    *)
(* the current record in st and the last method applied in op.            *)
(*                                                                         *)
(* The TabWindow module (./tabWindow) is imported by the source but is not *)
(* part of it; its functions are modelled from the collaborator contract   *)
(* of the specification (section 6).                                       *)
(***************************************************************************)
EXTENDS Integers, Sequences, FiniteSets, TLC

VARIABLES st, op

vars == <<st, op>>

\* ------------------------------------------------------------------ bounds
MaxWindowId == 2
MaxFolderId == 2
MaxRegisterAll == 2

\* the value of an unset id field of a record (folderId: -1, ...)
None == -1

WindowIds == 1..MaxWindowId
FolderIds == 1..MaxFolderId

\* the opaque payload of a tab window (its tab items): two values are
\* enough to tell an older snapshot of a window from a newer one
TabStates == {"t0", "t1"}

\* --------------------------------------------------------- tab windows
\* a tab window as far as the store reads it: the two flags, the two keys,
\* and the opaque payload
TabWindows ==
    [open : BOOLEAN, openWindowId : WindowIds \cup {None},
     saved : BOOLEAN, savedFolderId : FolderIds \cup {None},
     tabs : TabStates]

\* flags match populated key fields (spec section 7)
WellFormed(tw) ==
    /\ tw.open <=> tw.openWindowId # None
    /\ tw.saved <=> tw.savedFolderId # None

WellFormedTabWindows == {tw \in TabWindows : WellFormed(tw)}

\* chrome.windows.Window as far as the store and the collaborator read it
ChromeWindows == [id : WindowIds, focused : BOOLEAN, tabs : TabStates]

\* a bookmark folder node
BookmarkFolders == [id : FolderIds]

\* TabWindow.makeChromeTabWindow: an open-only window
makeChromeTabWindow(cw) ==
    [open |-> TRUE, openWindowId |-> cw.id,
     saved |-> FALSE, savedFolderId |-> None, tabs |-> cw.tabs]

\* TabWindow.makeFolderTabWindow: a saved-only window
makeFolderTabWindow(folder) ==
    [open |-> FALSE, openWindowId |-> None,
     saved |-> TRUE, savedFolderId |-> folder.id, tabs |-> "t0"]

\* TabWindow.updateWindow: sets the open fields, keeps the saved fields
updateWindow(tw, cw) ==
    [tw EXCEPT !.open = TRUE, !.openWindowId = cw.id, !.tabs = cw.tabs]

\* TabWindow.removeOpenWindowState: clears the open fields
removeOpenWindowState(tw) ==
    [tw EXCEPT !.open = FALSE, !.openWindowId = None]

\* TabWindow.removeSavedWindowState: clears the saved fields
removeSavedWindowState(tw) ==
    [tw EXCEPT !.saved = FALSE, !.savedFolderId = None]

\* TabWindow.closeTab / saveTab / unsaveTab / setActiveTab / updateTabItem:
\* a new payload, same flags and keys
closeTab(tw, t) == [tw EXCEPT !.tabs = t]
saveTab(tw, t) == [tw EXCEPT !.tabs = t]
unsaveTab(tw, t) == [tw EXCEPT !.tabs = t]
setActiveTab(tw, t) == [tw EXCEPT !.tabs = t]
updateTabItem(tw, t) == [tw EXCEPT !.tabs = t]

\* ------------------------------------------------------ Immutable.Map
EmptyMap == [k \in {} |-> None]

MapSet(m, k, v) == [x \in (DOMAIN m) \cup {k} |-> IF x = k THEN v ELSE m[x]]

MapDelete(m, k) == [x \in (DOMAIN m) \ {k} |-> m[x]]

MapHas(m, k) == k \in DOMAIN m

MapValues(m) == {m[k] : k \in DOMAIN m}

\* all orderings of a finite set as sequences without repetition
Orderings(S) ==
    {s \in [1..Cardinality(S) -> S] : \A i, j \in 1..Cardinality(S) : s[i] = s[j] => i = j}

\* --------------------------------------------------------------- store
\* the record's defaults
InitialState ==
    [windowIdMap |-> EmptyMap, bookmarkIdMap |-> EmptyMap,
     folderId |-> None, archiveFolderId |-> None, currentWindowId |-> None]

\* registerTabWindow without the tests of the flags
registerTabWindow_NoFlagTest(s, tabWindow) ==
    [s EXCEPT !.windowIdMap = MapSet(s.windowIdMap, tabWindow.openWindowId, tabWindow),
              !.bookmarkIdMap = MapSet(s.bookmarkIdMap, tabWindow.savedFolderId, tabWindow)]

\* registerTabWindow entering an open window in bookmarkIdMap only once its
\* window id is a key of windowIdMap
registerTabWindow_SavedOncePresent(s, tabWindow) ==
    LET nextWindowIdMap ==
            IF tabWindow.open
            THEN MapSet(s.windowIdMap, tabWindow.openWindowId, tabWindow)
            ELSE s.windowIdMap
        nextBookmarkIdMap ==
            IF tabWindow.saved
               /\ (tabWindow.open => MapHas(s.windowIdMap, tabWindow.openWindowId))
            THEN MapSet(s.bookmarkIdMap, tabWindow.savedFolderId, tabWindow)
            ELSE s.bookmarkIdMap
    IN [s EXCEPT !.windowIdMap = nextWindowIdMap, !.bookmarkIdMap = nextBookmarkIdMap]

\* registerTabWindow entering a saved window under its window id
registerTabWindow_KeyMixup(s, tabWindow) ==
    LET nextWindowIdMap ==
            IF tabWindow.open
            THEN MapSet(s.windowIdMap, tabWindow.openWindowId, tabWindow)
            ELSE s.windowIdMap
        nextBookmarkIdMap ==
            IF tabWindow.saved
            THEN MapSet(s.bookmarkIdMap, tabWindow.openWindowId, tabWindow)
            ELSE s.bookmarkIdMap
    IN [s EXCEPT !.windowIdMap = nextWindowIdMap, !.bookmarkIdMap = nextBookmarkIdMap]

registerTabWindow(s, tabWindow) ==
    LET nextWindowIdMap ==
            IF tabWindow.open
            THEN MapSet(s.windowIdMap, tabWindow.openWindowId, tabWindow)
            ELSE s.windowIdMap
        nextBookmarkIdMap ==
            IF tabWindow.saved
            THEN MapSet(s.bookmarkIdMap, tabWindow.savedFolderId, tabWindow)
            ELSE s.bookmarkIdMap
    IN [s EXCEPT !.windowIdMap = nextWindowIdMap, !.bookmarkIdMap = nextBookmarkIdMap]

\* registerTabWindows folding from the right: the first window of the
\* array is registered last
RECURSIVE registerTabWindows_FromRight(_, _)
registerTabWindows_FromRight(s, tabWindows) ==
    IF tabWindows = <<>> THEN s
    ELSE registerTabWindow(registerTabWindows_FromRight(s, Tail(tabWindows)), Head(tabWindows))

RECURSIVE registerTabWindows(_, _)
registerTabWindows(s, tabWindows) ==
    IF tabWindows = <<>> THEN s
    ELSE registerTabWindows(registerTabWindow(s, Head(tabWindows)), Tail(tabWindows))

\* handleTabWindowClosed without the re-registration of the reverted window
handleTabWindowClosed_NoReregister(s, tabWindow) ==
    [s EXCEPT !.windowIdMap = MapDelete(s.windowIdMap, tabWindow.openWindowId)]

\* handleTabWindowClosed re-registering the window as it was passed
handleTabWindowClosed_RegistersOriginal(s, tabWindow) ==
    LET closedWindowIdMap == MapDelete(s.windowIdMap, tabWindow.openWindowId)
    IN registerTabWindow([s EXCEPT !.windowIdMap = closedWindowIdMap], tabWindow)

\* handleTabWindowClosed that also drops the window's bookmarkIdMap entry
handleTabWindowClosed_ForgetsSaved(s, tabWindow) ==
    [s EXCEPT !.windowIdMap = MapDelete(s.windowIdMap, tabWindow.openWindowId),
              !.bookmarkIdMap = MapDelete(s.bookmarkIdMap, tabWindow.savedFolderId)]

\* handleTabWindowClosed resetting currentWindowId when the current window closes
handleTabWindowClosed_ClearsCurrent(s, tabWindow) ==
    LET closedWindowIdMap == MapDelete(s.windowIdMap, tabWindow.openWindowId)
        revertedWindow == removeOpenWindowState(tabWindow)
        nextCurrent == IF s.currentWindowId = tabWindow.openWindowId
                       THEN None ELSE s.currentWindowId
    IN registerTabWindow([s EXCEPT !.windowIdMap = closedWindowIdMap,
                                   !.currentWindowId = nextCurrent],
                         revertedWindow)

handleTabWindowClosed(s, tabWindow) ==
    LET closedWindowIdMap == MapDelete(s.windowIdMap, tabWindow.openWindowId)
        revertedWindow == removeOpenWindowState(tabWindow)
    IN registerTabWindow([s EXCEPT !.windowIdMap = closedWindowIdMap], revertedWindow)

handleTabClosed(s, tabWindow, tabId) == registerTabWindow(s, closeTab(tabWindow, tabId))

handleTabSaved(s, tabWindow, tabItem) == registerTabWindow(s, saveTab(tabWindow, tabItem))

handleTabUnsaved(s, tabWindow, tabItem) == registerTabWindow(s, unsaveTab(tabWindow, tabItem))

handleTabActivated(s, tabWindow, tabId) == registerTabWindow(s, setActiveTab(tabWindow, tabId))

handleTabUpdated(s, tabWindow, tab) == registerTabWindow(s, updateTabItem(tabWindow, tab))

attachChromeWindow(s, tabWindow, chromeWindow) ==
    LET rmStore ==
            IF MapHas(s.windowIdMap, chromeWindow.id)
            THEN handleTabWindowClosed(s, s.windowIdMap[chromeWindow.id])
            ELSE s
        attachedTabWindow == updateWindow(tabWindow, chromeWindow)
    IN registerTabWindow(rmStore, attachedTabWindow)

\* syncChromeWindow setting currentWindowId whether or not the window has focus
syncChromeWindow_AlwaysCurrent(s, chromeWindow) ==
    LET tabWindow ==
            IF MapHas(s.windowIdMap, chromeWindow.id)
            THEN updateWindow(s.windowIdMap[chromeWindow.id], chromeWindow)
            ELSE makeChromeTabWindow(chromeWindow)
        stReg == registerTabWindow(s, tabWindow)
    IN [stReg EXCEPT !.currentWindowId = chromeWindow.id]

syncChromeWindow(s, chromeWindow) ==
    LET tabWindow ==
            IF MapHas(s.windowIdMap, chromeWindow.id)
            THEN updateWindow(s.windowIdMap[chromeWindow.id], chromeWindow)
            ELSE makeChromeTabWindow(chromeWindow)
        stReg == registerTabWindow(s, tabWindow)
    IN IF chromeWindow.focused
       THEN [stReg EXCEPT !.currentWindowId = chromeWindow.id]
       ELSE stReg

RECURSIVE closeAll(_, _)
closeAll(s, closedWindows) ==
    IF closedWindows = <<>> THEN s
    ELSE closeAll(handleTabWindowClosed(s, Head(closedWindows)), Tail(closedWindows))

RECURSIVE syncAllWindows(_, _)
syncAllWindows(s, chromeWindowList) ==
    IF chromeWindowList = <<>> THEN s
    ELSE syncAllWindows(syncChromeWindow(s, Head(chromeWindowList)), Tail(chromeWindowList))

chromeIdSet(chromeWindowList) ==
    {chromeWindowList[i].id : i \in 1..Len(chromeWindowList)}

\* syncWindowList updating the listed windows before it closes the others
syncWindowList_SyncFirst(s, tabWindows, chromeWindowList) ==
    LET closedWindows ==
            SelectSeq(tabWindows,
                      LAMBDA tw : tw.openWindowId \notin chromeIdSet(chromeWindowList))
    IN closeAll(syncAllWindows(s, chromeWindowList), closedWindows)

\* tabWindows is the array getOpen() returned: the values of windowIdMap in
\* the map's iteration order
syncWindowList(s, tabWindows, chromeWindowList) ==
    LET closedWindows ==
            SelectSeq(tabWindows,
                      LAMBDA tw : tw.openWindowId \notin chromeIdSet(chromeWindowList))
        closedWinStore == closeAll(s, closedWindows)
    IN syncAllWindows(closedWinStore, chromeWindowList)

\* setCurrentWindow with the wrong field name
setCurrentWindow_WrongField(s, windowId) == [s EXCEPT !.folderId = windowId]

setCurrentWindow(s, windowId) == [s EXCEPT !.currentWindowId = windowId]

removeBookmarkIdMapEntry(s, tabWindow) ==
    [s EXCEPT !.bookmarkIdMap = MapDelete(s.bookmarkIdMap, tabWindow.savedFolderId)]

\* unmanageWindow registering the window as it was passed
unmanageWindow_RegistersOriginal(s, tabWindow) ==
    registerTabWindow(removeBookmarkIdMapEntry(s, tabWindow), tabWindow)

\* unmanageWindow that keeps the bookmarkIdMap entry
unmanageWindow_NoRemove(s, tabWindow) ==
    registerTabWindow(s, removeSavedWindowState(tabWindow))

unmanageWindow(s, tabWindow) ==
    LET rmStore == removeBookmarkIdMapEntry(s, tabWindow)
        umWindow == removeSavedWindowState(tabWindow)
    IN registerTabWindow(rmStore, umWindow)

attachBookmarkFolder(s, bookmarkFolder, chromeWindow) ==
    LET folderTabWindow == makeFolderTabWindow(bookmarkFolder)
        mergedTabWindow == updateWindow(folderTabWindow, chromeWindow)
    IN registerTabWindow(s, mergedTabWindow)

\* the arrays getOpen() can return: Immutable.Map iterates in an order that
\* depends on the map's history, so every order of the values is possible
getOpenOrders(s) == Orderings(MapValues(s.windowIdMap))

\* one of them, by ascending window id, for the order-insensitive queries
RECURSIVE seqByKey(_, _)
seqByKey(m, keys) ==
    IF keys = {} THEN <<>>
    ELSE LET k == CHOOSE x \in keys : \A y \in keys : x <= y
         IN <<m[k]>> \o seqByKey(m, keys \ {k})

getOpen(s) == seqByKey(s.windowIdMap, DOMAIN s.windowIdMap)

\* getAll without the filter on open
getAll_NoOpenFilter(s) ==
    getOpen(s) \o seqByKey(s.bookmarkIdMap, DOMAIN s.bookmarkIdMap)

getAll(s) ==
    LET openWindows == getOpen(s)
        closedSavedWindows ==
            SelectSeq(seqByKey(s.bookmarkIdMap, DOMAIN s.bookmarkIdMap),
                      LAMBDA w : ~w.open)
    IN openWindows \o closedSavedWindows

getTabWindowByChromeId(s, windowId) ==
    IF MapHas(s.windowIdMap, windowId) THEN s.windowIdMap[windowId] ELSE None

countOpenWindows(s) == Cardinality(DOMAIN s.windowIdMap)

countSavedWindows(s) == Cardinality(DOMAIN s.bookmarkIdMap)

\* ------------------------------------------------------------- actions
\* the tab windows a caller can hold: the ones registered in the store
StoreTabWindows(s) == MapValues(s.windowIdMap) \cup MapValues(s.bookmarkIdMap)

\* chrome.windows.getAll reports every window once
ChromeWindowLists ==
    UNION {{l \in [1..n -> ChromeWindows] : \A i, j \in 1..n : l[i].id = l[j].id => i = j}
           : n \in 0..MaxWindowId}

\* the arrays registerTabWindows is folded over: windows as they are first
\* made, before any tab event changed their payload
NewTabWindows == {tw \in WellFormedTabWindows : tw.tabs = "t0"}

TabWindowLists == UNION {[1..n -> NewTabWindows] : n \in 0..MaxRegisterAll}

NoTabWindow ==
    [open |-> FALSE, openWindowId |-> None, saved |-> FALSE, savedFolderId |-> None,
     tabs |-> "t0"]

NoChromeWindow == [id |-> None, focused |-> FALSE, tabs |-> "t0"]

\* op is the call that produced st, with its arguments, until Return takes
\* st as the current store: name, the tab window (tw), chrome window (cw),
\* id or payload (arg) and arrays (tws, cws) passed, and in prev the tab
\* window that the call before closed when attachChromeWindow follows
\* handleTabWindowClosed directly
NoOp ==
    [name |-> "none", tw |-> NoTabWindow, cw |-> NoChromeWindow, arg |-> None,
     tabs |-> "t0", tws |-> <<>>, cws |-> <<>>, prev |-> NoTabWindow]

Idle == op = NoOp

Init ==
    /\ st = InitialState
    /\ op = NoOp

Return ==
    /\ ~Idle
    /\ op' = NoOp
    /\ UNCHANGED st

Register ==
    \E tw \in WellFormedTabWindows \cup {NoTabWindow} :
        /\ Idle
        /\ st' = registerTabWindow(st, tw)
        /\ op' = [NoOp EXCEPT !.name = "registerTabWindow", !.tw = tw]

RegisterAll ==
    \E tws \in TabWindowLists :
        /\ Idle
        /\ st' = registerTabWindows(st, tws)
        /\ op' = [NoOp EXCEPT !.name = "registerTabWindows", !.tws = tws]

CloseWindow ==
    \E tw \in StoreTabWindows(st) :
        /\ Idle
        /\ st' = handleTabWindowClosed(st, tw)
        /\ op' = [NoOp EXCEPT !.name = "handleTabWindowClosed", !.tw = tw]

TabClosed ==
    \E tw \in StoreTabWindows(st), t \in TabStates :
        /\ Idle
        /\ st' = handleTabClosed(st, tw, t)
        /\ op' = [NoOp EXCEPT !.name = "handleTabClosed", !.tw = tw, !.tabs = t]

TabSaved ==
    \E tw \in StoreTabWindows(st), t \in TabStates :
        /\ Idle
        /\ st' = handleTabSaved(st, tw, t)
        /\ op' = [NoOp EXCEPT !.name = "handleTabSaved", !.tw = tw, !.tabs = t]

TabUnsaved ==
    \E tw \in StoreTabWindows(st), t \in TabStates :
        /\ Idle
        /\ st' = handleTabUnsaved(st, tw, t)
        /\ op' = [NoOp EXCEPT !.name = "handleTabUnsaved", !.tw = tw, !.tabs = t]

TabActivated ==
    \E tw \in StoreTabWindows(st), t \in TabStates :
        /\ Idle
        /\ st' = handleTabActivated(st, tw, t)
        /\ op' = [NoOp EXCEPT !.name = "handleTabActivated", !.tw = tw, !.tabs = t]

TabUpdated ==
    \E tw \in StoreTabWindows(st), t \in TabStates :
        /\ Idle
        /\ st' = handleTabUpdated(st, tw, t)
        /\ op' = [NoOp EXCEPT !.name = "handleTabUpdated", !.tw = tw, !.tabs = t]

AttachChromeWindow ==
    \E tw \in StoreTabWindows(st), cw \in ChromeWindows :
        /\ Idle \/ op.name = "handleTabWindowClosed"
        /\ st' = attachChromeWindow(st, tw, cw)
        /\ op' = [NoOp EXCEPT !.name = "attachChromeWindow", !.tw = tw, !.cw = cw,
                              !.prev = op.tw]

\* attachChromeWindow as its comment has it called: on a saved window that
\* was not open and has just been opened
OpenSavedWindow ==
    \E tw \in StoreTabWindows(st), cw \in ChromeWindows :
        /\ Idle
        /\ ~tw.open /\ tw.saved
        /\ st' = attachChromeWindow(st, tw, cw)
        /\ op' = [NoOp EXCEPT !.name = "attachChromeWindow", !.tw = tw, !.cw = cw]

AttachBookmarkFolder ==
    \E folder \in BookmarkFolders, cw \in ChromeWindows :
        /\ Idle
        /\ st' = attachBookmarkFolder(st, folder, cw)
        /\ op' = [NoOp EXCEPT !.name = "attachBookmarkFolder", !.arg = folder.id, !.cw = cw]

UnmanageWindow ==
    \E tw \in StoreTabWindows(st) :
        /\ Idle
        /\ st' = unmanageWindow(st, tw)
        /\ op' = [NoOp EXCEPT !.name = "unmanageWindow", !.tw = tw]

SyncChromeWindow ==
    \E cw \in ChromeWindows :
        /\ Idle
        /\ st' = syncChromeWindow(st, cw)
        /\ op' = [NoOp EXCEPT !.name = "syncChromeWindow", !.cw = cw]

SyncWindowList ==
    \E cws \in ChromeWindowLists, tabWindows \in getOpenOrders(st) :
        /\ Idle
        /\ st' = syncWindowList(st, tabWindows, cws)
        /\ op' = [NoOp EXCEPT !.name = "syncWindowList", !.cws = cws, !.tws = tabWindows]

SetCurrentWindow ==
    \E windowId \in WindowIds :
        /\ Idle
        /\ st' = setCurrentWindow(st, windowId)
        /\ op' = [NoOp EXCEPT !.name = "setCurrentWindow", !.arg = windowId]

Next ==
    \/ Register
    \/ RegisterAll
    \/ CloseWindow
    \/ TabClosed
    \/ TabSaved
    \/ TabUnsaved
    \/ TabActivated
    \/ TabUpdated
    \/ AttachChromeWindow
    \/ AttachBookmarkFolder
    \/ UnmanageWindow
    \/ SyncChromeWindow
    \/ SyncWindowList
    \/ SetCurrentWindow
    \/ Return

Spec == Init /\ [][Next]_vars

\* the store as the host's events alone drive it: no caller registers a tab
\* window of its own making, and attachChromeWindow is called on saved
\* windows that are not open
NextEvents ==
    \/ CloseWindow
    \/ TabClosed
    \/ TabSaved
    \/ TabUnsaved
    \/ TabActivated
    \/ TabUpdated
    \/ OpenSavedWindow
    \/ AttachBookmarkFolder
    \/ UnmanageWindow
    \/ SyncChromeWindow
    \/ SyncWindowList
    \/ SetCurrentWindow
    \/ Return

SpecEvents == Init /\ [][NextEvents]_vars

TypeOK ==
    /\ DOMAIN st.windowIdMap \subseteq WindowIds
    /\ DOMAIN st.bookmarkIdMap \subseteq FolderIds
    /\ st.currentWindowId \in WindowIds \cup {None}

\* --------------------------------------------------------------- claims
InBoth(s, tw) ==
    /\ tw.open /\ tw.saved
    /\ MapHas(s.windowIdMap, tw.openWindowId) /\ s.windowIdMap[tw.openWindowId] = tw
    /\ MapHas(s.bookmarkIdMap, tw.savedFolderId) /\ s.bookmarkIdMap[tw.savedFolderId] = tw

\* C1: every tab window in windowIdMap has open = TRUE and every tab window
\* in bookmarkIdMap has saved = TRUE, so a window with neither flag is in
\* neither map.
C1_IndexFlags ==
    /\ \A k \in DOMAIN st.windowIdMap : st.windowIdMap[k].open
    /\ \A f \in DOMAIN st.bookmarkIdMap : st.bookmarkIdMap[f].saved
    /\ \A tw \in StoreTabWindows(st) : tw.open \/ tw.saved

\* an open-only window was closed (its reverted form, with neither flag, was
\* handed to registerTabWindow) while both maps hold other windows
C1_Witness ==
    /\ op.name = "handleTabWindowClosed"
    /\ op.tw.open /\ ~op.tw.saved
    /\ DOMAIN st.windowIdMap # {}
    /\ DOMAIN st.bookmarkIdMap # {}

\* C2: the two maps agree on every window they share: an open window that
\* is saved is the value at its folder id in bookmarkIdMap, and a saved
\* window that is open is the value at its window id in windowIdMap.
C2_IndicesAgree ==
    /\ \A k \in DOMAIN st.windowIdMap :
          LET e == st.windowIdMap[k]
          IN e.saved => /\ MapHas(st.bookmarkIdMap, e.savedFolderId)
                        /\ st.bookmarkIdMap[e.savedFolderId] = e
    /\ \A f \in DOMAIN st.bookmarkIdMap :
          LET e == st.bookmarkIdMap[f]
          IN e.open => /\ MapHas(st.windowIdMap, e.openWindowId)
                       /\ st.windowIdMap[e.openWindowId] = e

\* C3: getAll() holds no tab window twice; a window in both maps is in it
\* exactly once.
C3_GetAllNoDuplicates ==
    LET all == getAll(st)
    IN /\ \A i, j \in 1..Len(all) : all[i] = all[j] => i = j
       /\ \A tw \in StoreTabWindows(st) :
             InBoth(st, tw) => Cardinality({i \in 1..Len(all) : all[i] = tw}) = 1

\* a window is in both maps next to a saved window that is not open
C3_Witness ==
    /\ \E tw \in StoreTabWindows(st) : InBoth(st, tw)
    /\ \E f \in DOMAIN st.bookmarkIdMap : ~st.bookmarkIdMap[f].open
    /\ Len(getAll(st)) >= 2

\* C4: after syncWindowList(list) the keys of windowIdMap are the ids of the
\* list; an open window whose id is not in the list is closed and, when it
\* was saved, bookmarkIdMap holds its reverted form; a window whose id is in
\* the list is updated in place; an id without a window gets a new open-only
\* window.
C4_SyncWindowList ==
    Idle =>
      \A cws \in ChromeWindowLists, tws \in getOpenOrders(st) :
        LET s2 == syncWindowList(st, tws, cws)
            ids == chromeIdSet(cws)
        IN /\ DOMAIN s2.windowIdMap = ids
           /\ \A k \in (DOMAIN st.windowIdMap) \ ids :
                 LET e == st.windowIdMap[k]
                 IN e.saved =>
                      /\ MapHas(s2.bookmarkIdMap, e.savedFolderId)
                      /\ s2.bookmarkIdMap[e.savedFolderId] = removeOpenWindowState(e)
           /\ \A i \in 1..Len(cws) :
                 s2.windowIdMap[cws[i].id] =
                    IF MapHas(st.windowIdMap, cws[i].id)
                    THEN updateWindow(st.windowIdMap[cws[i].id], cws[i])
                    ELSE makeChromeTabWindow(cws[i])

\* the id of the last chrome window of the list that has focus, or prev
RECURSIVE LastFocused(_, _)
LastFocused(cws, prev) ==
    IF cws = <<>> THEN prev
    ELSE LET last == cws[Len(cws)]
         IN IF last.focused THEN last.id
            ELSE LastFocused(SubSeq(cws, 1, Len(cws) - 1), prev)

\* C5: after syncWindowList(list) currentWindowId is the id of the last
\* chrome window of the list with focused = TRUE, and is unchanged when no
\* window of the list has focus.
C5_SyncFocus ==
    Idle =>
      \A cws \in ChromeWindowLists, tws \in getOpenOrders(st) :
        syncWindowList(st, tws, cws).currentWindowId = LastFocused(cws, st.currentWindowId)

\* a list of two windows was synchronized, the focused one first, and
\* currentWindowId is its id
C5_Witness ==
    /\ op.name = "syncWindowList"
    /\ Len(op.cws) = 2
    /\ op.cws[1].focused /\ ~op.cws[2].focused
    /\ st.currentWindowId = op.cws[1].id

\* the lists with the same chrome windows in another order
Reorderings(cws) ==
    {l \in ChromeWindowLists :
        Len(l) = Len(cws) /\ {l[i] : i \in 1..Len(l)} = {cws[i] : i \in 1..Len(cws)}}

\* C6: the two maps that syncWindowList produces do not depend on the order
\* in which the closed windows are visited nor on the order of the list.
C6_SyncOrderIndependent ==
    Idle =>
      \A cws \in ChromeWindowLists :
        \A cws2 \in Reorderings(cws), tws \in getOpenOrders(st), tws2 \in getOpenOrders(st) :
          LET a == syncWindowList(st, tws, cws)
              b == syncWindowList(st, tws2, cws2)
          IN a.windowIdMap = b.windowIdMap /\ a.bookmarkIdMap = b.bookmarkIdMap

\* C7: attachChromeWindow(B, cw) where another window A is at
\* windowIdMap[cw.id]: afterwards B merged with cw is at that key, and A is
\* left only as its reverted form in bookmarkIdMap when it was saved, and in
\* neither map when it was not.
C7_Eviction ==
    Idle =>
      \A B \in StoreTabWindows(st), cw \in ChromeWindows :
        (MapHas(st.windowIdMap, cw.id) /\ st.windowIdMap[cw.id] # B) =>
          LET A == st.windowIdMap[cw.id]
              s2 == attachChromeWindow(st, B, cw)
          IN /\ s2.windowIdMap[cw.id] = updateWindow(B, cw)
             /\ A.saved =>
                  /\ MapHas(s2.bookmarkIdMap, A.savedFolderId)
                  /\ s2.bookmarkIdMap[A.savedFolderId] = removeOpenWindowState(A)
             /\ ~A.saved => A \notin MapValues(s2.bookmarkIdMap)

\* C8: closing a window E that is open and saved, then attaching the saved
\* window left at its folder to a chrome window with E's window id, leaves
\* one window at both keys, open and saved with E's folder id.
C8_RoundTrip ==
    Idle =>
      \A E \in StoreTabWindows(st), cw \in ChromeWindows :
        (E.open /\ E.saved /\ cw.id = E.openWindowId) =>
          LET s1 == handleTabWindowClosed(st, E)
              R == s1.bookmarkIdMap[E.savedFolderId]
              s2 == attachChromeWindow(s1, R, cw)
              w == s2.windowIdMap[cw.id]
          IN /\ ~R.open /\ R.saved
             /\ ~MapHas(s1.windowIdMap, E.openWindowId)
             /\ MapHas(s2.windowIdMap, cw.id)
             /\ MapHas(s2.bookmarkIdMap, E.savedFolderId)
             /\ s2.bookmarkIdMap[E.savedFolderId] = w
             /\ w.open /\ w.saved /\ w.savedFolderId = E.savedFolderId
             /\ w.openWindowId = E.openWindowId

\* handleTabWindowClosed(E) was followed by attachChromeWindow of the
\* reverted E with a chrome window of E's id, and both keys hold one window
C8_Witness ==
    /\ op.name = "attachChromeWindow"
    /\ op.prev.open /\ op.prev.saved
    /\ op.tw = removeOpenWindowState(op.prev)
    /\ op.cw.id = op.prev.openWindowId
    /\ InBoth(st, updateWindow(op.tw, op.cw))

\* C9: handleTabWindowClosed(tw) removes tw.openWindowId from windowIdMap;
\* when tw was saved bookmarkIdMap holds its reverted form at its folder id;
\* when tw was open only it is in neither map afterwards.
C9_CloseWindow ==
    Idle =>
      \A tw \in StoreTabWindows(st) :
        LET s2 == handleTabWindowClosed(st, tw)
        IN /\ ~MapHas(s2.windowIdMap, tw.openWindowId)
           /\ tw.saved =>
                /\ MapHas(s2.bookmarkIdMap, tw.savedFolderId)
                /\ s2.bookmarkIdMap[tw.savedFolderId] = removeOpenWindowState(tw)
                /\ ~s2.bookmarkIdMap[tw.savedFolderId].open
                /\ s2.bookmarkIdMap[tw.savedFolderId].saved
           /\ (tw.open /\ ~tw.saved) =>
                /\ tw \notin StoreTabWindows(s2)
                /\ removeOpenWindowState(tw) \notin StoreTabWindows(s2)
                /\ s2.bookmarkIdMap = st.bookmarkIdMap

\* an open and saved window was closed: its key is gone from windowIdMap and
\* bookmarkIdMap holds its reverted form
C9_Witness ==
    /\ op.name = "handleTabWindowClosed"
    /\ op.tw.open /\ op.tw.saved
    /\ ~MapHas(st.windowIdMap, op.tw.openWindowId)
    /\ MapHas(st.bookmarkIdMap, op.tw.savedFolderId)
    /\ st.bookmarkIdMap[op.tw.savedFolderId] = removeOpenWindowState(op.tw)

\* C10: registerTabWindow(e) applied twice gives the store that applying it
\* once gives.
C10_RegisterIdempotent ==
    Idle =>
      \A e \in WellFormedTabWindows \cup {NoTabWindow} :
        registerTabWindow(registerTabWindow(st, e), e) = registerTabWindow(st, e)

\* an open and saved window was registered over other entries, and
\* registering it again changes nothing
C10_Witness ==
    /\ op.name = "registerTabWindow"
    /\ InBoth(st, op.tw)
    /\ Cardinality(DOMAIN st.windowIdMap) = 2
    /\ registerTabWindow(st, op.tw) = st

\* the arrays of at most MaxRegisterAll windows, with or without flags
AnyTabWindowLists ==
    UNION {[1..n -> WellFormedTabWindows \cup {NoTabWindow}] : n \in 0..MaxRegisterAll}

\* the last window of tws that is open at window id k, or the prior entry
LastOpenAt(tws, k, prior) ==
    LET idx == {i \in 1..Len(tws) : tws[i].open /\ tws[i].openWindowId = k}
    IN IF idx = {} THEN prior
       ELSE <<tws[CHOOSE i \in idx : \A j \in idx : j <= i]>>

\* the last window of tws that is saved at folder id f, or the prior entry
LastSavedAt(tws, f, prior) ==
    LET idx == {i \in 1..Len(tws) : tws[i].saved /\ tws[i].savedFolderId = f}
    IN IF idx = {} THEN prior
       ELSE <<tws[CHOOSE i \in idx : \A j \in idx : j <= i]>>

\* the entry of map m at key k as a sequence of zero or one window
Entry(m, k) == IF MapHas(m, k) THEN <<m[k]>> ELSE <<>>

\* C11: registerTabWindows(array) is the left fold of registerTabWindow: at
\* every key the resulting entry of windowIdMap (bookmarkIdMap) is the last
\* window of the array that is open with that window id (saved with that
\* folder id), or the prior entry when the array has none.
C11_RegisterAllLastWins ==
    Idle =>
      \A tws \in AnyTabWindowLists :
        LET s2 == registerTabWindows(st, tws)
        IN /\ \A k \in WindowIds \cup {None} :
                Entry(s2.windowIdMap, k) = LastOpenAt(tws, k, Entry(st.windowIdMap, k))
           /\ \A f \in FolderIds \cup {None} :
                Entry(s2.bookmarkIdMap, f) = LastSavedAt(tws, f, Entry(st.bookmarkIdMap, f))
           /\ DOMAIN s2.windowIdMap \subseteq WindowIds
           /\ DOMAIN s2.bookmarkIdMap \subseteq FolderIds

\* an array of two different windows open at one window id was registered
\* and windowIdMap holds the second
C11_Witness ==
    /\ op.name = "registerTabWindows"
    /\ Len(op.tws) = 2
    /\ op.tws[1].open /\ op.tws[2].open
    /\ op.tws[1].openWindowId = op.tws[2].openWindowId
    /\ op.tws[1] # op.tws[2]
    /\ st.windowIdMap[op.tws[2].openWindowId] = op.tws[2]

\* C12: no method changes folderId or archiveFolderId: in every reachable
\* store they have the values of construction.
C12_FolderIdsFixed ==
    /\ st.folderId = InitialState.folderId
    /\ st.archiveFolderId = InitialState.archiveFolderId

\* the current window was set on a store that holds open and saved windows
C12_Witness ==
    /\ op.name = "setCurrentWindow"
    /\ st.currentWindowId = op.arg
    /\ DOMAIN st.windowIdMap # {}
    /\ DOMAIN st.bookmarkIdMap # {}

\* C13: syncWindowList completes its closures before any syncChromeWindow,
\* and so a window registered at an id the host reuses for a brand-new window
\* within the same list is not taken to be the new window. The list does not
\* tell a reused id from a surviving window, so this is stated for every
\* snapshot whose id is held by a saved window: the result at that id is a
\* fresh window made from the snapshot alone.
C13_StaleNotMerged ==
    Idle =>
      \A cws \in ChromeWindowLists, tabWindows \in getOpenOrders(st) :
        LET s2 == syncWindowList(st, tabWindows, cws)
        IN \A i \in 1..Len(cws) :
             (MapHas(st.windowIdMap, cws[i].id) /\ st.windowIdMap[cws[i].id].saved)
               => s2.windowIdMap[cws[i].id] = makeChromeTabWindow(cws[i])

\* C13 (amended): closures are decided by window id alone and are completed
\* before any syncChromeWindow: a window whose id is in the list is never
\* closed, the snapshot of that id is merged into it (it keeps its saved flag
\* and folder id), and no closure overwrites the bookmarkIdMap entry that the
\* last syncChromeWindow for a folder has written.
C13_ListedWindowsMerged ==
    Idle =>
      \A cws \in ChromeWindowLists, tabWindows \in getOpenOrders(st) :
        LET s2 == syncWindowList(st, tabWindows, cws)
        IN \A i \in 1..Len(cws) :
             MapHas(st.windowIdMap, cws[i].id) =>
               LET X == st.windowIdMap[cws[i].id]
                   later == {j \in (i + 1)..Len(cws) :
                               /\ MapHas(st.windowIdMap, cws[j].id)
                               /\ st.windowIdMap[cws[j].id].saved
                               /\ st.windowIdMap[cws[j].id].savedFolderId = X.savedFolderId}
               IN /\ s2.windowIdMap[cws[i].id] = updateWindow(X, cws[i])
                  /\ s2.windowIdMap[cws[i].id].saved = X.saved
                  /\ s2.windowIdMap[cws[i].id].savedFolderId = X.savedFolderId
                  /\ (X.saved /\ later = {})
                       => s2.bookmarkIdMap[X.savedFolderId] = updateWindow(X, cws[i])

\* a list was synced that names the id of a saved open window and leaves
\* out another open window: the first is merged and still saved, the second
\* is gone from windowIdMap
C13_Witness ==
    /\ op.name = "syncWindowList"
    /\ \E i \in 1..Len(op.cws), j \in 1..Len(op.tws) :
         /\ op.tws[j].openWindowId = op.cws[i].id
         /\ op.tws[j].saved
         /\ st.windowIdMap[op.cws[i].id] = updateWindow(op.tws[j], op.cws[i])
         /\ st.windowIdMap[op.cws[i].id].saved
    /\ \E j \in 1..Len(op.tws) :
         /\ op.tws[j].openWindowId \notin chromeIdSet(op.cws)
         /\ ~MapHas(st.windowIdMap, op.tws[j].openWindowId)

\* C14: every entry of windowIdMap is stored under its own openWindowId and
\* every entry of bookmarkIdMap under its own savedFolderId.
C14_KeysMatch ==
    /\ \A k \in DOMAIN st.windowIdMap : st.windowIdMap[k].openWindowId = k
    /\ \A f \in DOMAIN st.bookmarkIdMap : st.bookmarkIdMap[f].savedFolderId = f

\* a folder was attached and both maps hold two windows
C14_Witness ==
    /\ op.name = "attachBookmarkFolder"
    /\ Cardinality(DOMAIN st.windowIdMap) = 2
    /\ Cardinality(DOMAIN st.bookmarkIdMap) = 2
    /\ st.windowIdMap[op.cw.id].savedFolderId = op.arg

\* C15: unmanageWindow(tabWindow) removes tabWindow.savedFolderId from
\* bookmarkIdMap and registers the window without its saved state: an open
\* window is afterwards at windowIdMap[openWindowId] with saved = FALSE and
\* is not in bookmarkIdMap; a window that was only saved is in neither map.
C15_Unmanage ==
    Idle =>
      \A tw \in StoreTabWindows(st) :
        LET s2 == unmanageWindow(st, tw)
        IN /\ ~MapHas(s2.bookmarkIdMap, tw.savedFolderId)
           /\ tw \notin MapValues(s2.bookmarkIdMap) \/ ~tw.saved
           /\ tw.open =>
                /\ MapHas(s2.windowIdMap, tw.openWindowId)
                /\ s2.windowIdMap[tw.openWindowId] = removeSavedWindowState(tw)
                /\ ~s2.windowIdMap[tw.openWindowId].saved
                /\ removeSavedWindowState(tw) \notin MapValues(s2.bookmarkIdMap)
           /\ (~tw.open /\ tw.saved) =>
                /\ tw \notin MapValues(s2.windowIdMap)
                /\ removeSavedWindowState(tw) \notin MapValues(s2.windowIdMap)
                /\ removeSavedWindowState(tw) \notin MapValues(s2.bookmarkIdMap)
                /\ DOMAIN s2.windowIdMap = DOMAIN st.windowIdMap

\* an open saved window was unmanaged while another window stayed saved
C15_Witness ==
    /\ op.name = "unmanageWindow"
    /\ op.tw.open /\ op.tw.saved
    /\ st.windowIdMap[op.tw.openWindowId] = removeSavedWindowState(op.tw)
    /\ ~MapHas(st.bookmarkIdMap, op.tw.savedFolderId)
    /\ DOMAIN st.bookmarkIdMap # {}

\* C16: a key leaves a map only by an explicit delete: a step that removes
\* a key of windowIdMap is handleTabWindowClosed for that window, the
\* closure phase of syncWindowList (the key is not in the list) or the
\* eviction of attachChromeWindow (the snapshot's id); a step that removes a
\* key of bookmarkIdMap is unmanageWindow for that folder; every other step
\* keeps every key.
C16_KeysLeaveByDelete ==
    [][LET goneOpen == DOMAIN st.windowIdMap \ DOMAIN st'.windowIdMap
           goneSaved == DOMAIN st.bookmarkIdMap \ DOMAIN st'.bookmarkIdMap
       IN /\ goneOpen # {} =>
               \/ /\ op'.name = "handleTabWindowClosed"
                  /\ goneOpen = {op'.tw.openWindowId}
               \/ /\ op'.name = "syncWindowList"
                  /\ goneOpen \cap chromeIdSet(op'.cws) = {}
               \/ /\ op'.name = "attachChromeWindow"
                  /\ goneOpen = {op'.cw.id}
          /\ goneSaved # {} =>
               /\ op'.name = "unmanageWindow"
               /\ goneSaved = {op'.tw.savedFolderId}]_vars

\* an open window that is not saved was closed: its key left windowIdMap
\* while other windows stay registered
C16_Witness ==
    /\ op.name = "handleTabWindowClosed"
    /\ op.tw.open /\ ~op.tw.saved
    /\ ~MapHas(st.windowIdMap, op.tw.openWindowId)
    /\ DOMAIN st.windowIdMap # {}
    /\ DOMAIN st.bookmarkIdMap # {}

\* the results of the five tab handlers for window tw and argument t, each
\* with the transformed window it registers
TabHandlerResults(s, tw, t) ==
    { <<handleTabClosed(s, tw, t), closeTab(tw, t)>>,
      <<handleTabSaved(s, tw, t), saveTab(tw, t)>>,
      <<handleTabUnsaved(s, tw, t), unsaveTab(tw, t)>>,
      <<handleTabActivated(s, tw, t), setActiveTab(tw, t)>>,
      <<handleTabUpdated(s, tw, t), updateTabItem(tw, t)>> }

\* the windows the accessors hand out: the values of windowIdMap and the
\* closed windows of bookmarkIdMap
AccessibleTabWindows(s) ==
    MapValues(s.windowIdMap) \cup {w \in MapValues(s.bookmarkIdMap) : ~w.open}

\* C17: a tab handler applied to a window of the store keeps the key sets
\* of both maps, changes no entry other than those at the window's
\* openWindowId and savedFolderId, which become the transformed window, and
\* keeps currentWindowId.
C17_TabHandlersFrame ==
    Idle =>
      \A tw \in AccessibleTabWindows(st), t \in TabStates :
        \A r \in TabHandlerResults(st, tw, t) :
          LET s2 == r[1]
              tw2 == r[2]
          IN /\ DOMAIN s2.windowIdMap = DOMAIN st.windowIdMap
             /\ DOMAIN s2.bookmarkIdMap = DOMAIN st.bookmarkIdMap
             /\ \A k \in DOMAIN st.windowIdMap \ {tw.openWindowId} :
                  s2.windowIdMap[k] = st.windowIdMap[k]
             /\ \A f \in DOMAIN st.bookmarkIdMap \ {tw.savedFolderId} :
                  s2.bookmarkIdMap[f] = st.bookmarkIdMap[f]
             /\ tw.open => s2.windowIdMap[tw.openWindowId] = tw2
             /\ tw.saved => s2.bookmarkIdMap[tw.savedFolderId] = tw2
             /\ s2.currentWindowId = st.currentWindowId

\* C18: currentWindowId is changed only by setCurrentWindow and by
\* syncChromeWindow / syncWindowList with a focused snapshot; every other
\* method keeps it, so after the current window is closed (by
\* handleTabWindowClosed or by a syncWindowList without a focused snapshot)
\* currentWindowId still is the closed window's id, which is no key of
\* windowIdMap.
C18_CurrentWindowFrame ==
    [][/\ st'.currentWindowId # st.currentWindowId =>
            \/ op'.name = "setCurrentWindow" /\ st'.currentWindowId = op'.arg
            \/ /\ op'.name = "syncChromeWindow"
               /\ op'.cw.focused /\ st'.currentWindowId = op'.cw.id
            \/ /\ op'.name = "syncWindowList"
               /\ \E i \in 1..Len(op'.cws) :
                    op'.cws[i].focused /\ st'.currentWindowId = op'.cws[i].id
       /\ (/\ op'.name = "handleTabWindowClosed"
           /\ op'.tw.open
           /\ st.currentWindowId = op'.tw.openWindowId) =>
            /\ st'.currentWindowId = op'.tw.openWindowId
            /\ ~MapHas(st'.windowIdMap, st'.currentWindowId)
       /\ (/\ op'.name = "syncWindowList"
           /\ \A i \in 1..Len(op'.cws) : ~op'.cws[i].focused
           /\ MapHas(st.windowIdMap, st.currentWindowId)
           /\ st.currentWindowId \notin chromeIdSet(op'.cws)) =>
            /\ st'.currentWindowId = st.currentWindowId
            /\ ~MapHas(st'.windowIdMap, st'.currentWindowId)]_vars

\* the current window was closed: currentWindowId still names it and
\* windowIdMap has no such key
C18_Witness ==
    /\ op.name = "handleTabWindowClosed"
    /\ op.tw.open
    /\ st.currentWindowId = op.tw.openWindowId
    /\ ~MapHas(st.windowIdMap, st.currentWindowId)

\* C19: deleting an absent key is a no-op: handleTabWindowClosed(e) keeps
\* windowIdMap when it has no key e.openWindowId, unmanageWindow(e) keeps
\* bookmarkIdMap when it has no key e.savedFolderId, and attachChromeWindow
\* with a snapshot id that has no occupant evicts nothing and changes no
\* entry of windowIdMap other than the one at the snapshot's id.
C19_AbsentKeyNoOp ==
    Idle =>
      \A e \in WellFormedTabWindows \cup {NoTabWindow} :
        /\ ~MapHas(st.windowIdMap, e.openWindowId) =>
             handleTabWindowClosed(st, e).windowIdMap = st.windowIdMap
        /\ ~MapHas(st.bookmarkIdMap, e.savedFolderId) =>
             unmanageWindow(st, e).bookmarkIdMap = st.bookmarkIdMap
        /\ \A cw \in ChromeWindows :
             ~MapHas(st.windowIdMap, cw.id) =>
               LET s2 == attachChromeWindow(st, e, cw)
               IN /\ DOMAIN s2.windowIdMap = DOMAIN st.windowIdMap \cup {cw.id}
                  /\ \A k \in DOMAIN st.windowIdMap :
                       s2.windowIdMap[k] = st.windowIdMap[k]
                  /\ DOMAIN s2.bookmarkIdMap \ {e.savedFolderId}
                       = DOMAIN st.bookmarkIdMap \ {e.savedFolderId}
                  /\ \A f \in DOMAIN st.bookmarkIdMap \ {e.savedFolderId} :
                       s2.bookmarkIdMap[f] = st.bookmarkIdMap[f]

\* a closed saved window was attached to a window id that had no occupant,
\* next to another open window that is left as it was
C19_Witness ==
    /\ op.name = "attachChromeWindow"
    /\ ~op.tw.open /\ op.tw.saved
    /\ op.prev = NoTabWindow
    /\ st.windowIdMap[op.cw.id] = updateWindow(op.tw, op.cw)
    /\ Cardinality(DOMAIN st.windowIdMap) = 2
    /\ Cardinality(DOMAIN st.bookmarkIdMap) = 1

\* C20: syncWindowList adds and removes no saved window: bookmarkIdMap has
\* the same keys after it as before, and an entry whose window was not open
\* and whose folder no open window is saved in is unchanged.
C20_SyncKeepsSaved ==
    Idle =>
      \A cws \in ChromeWindowLists, tabWindows \in getOpenOrders(st) :
        LET s2 == syncWindowList(st, tabWindows, cws)
        IN /\ DOMAIN s2.bookmarkIdMap = DOMAIN st.bookmarkIdMap
           /\ \A f \in DOMAIN st.bookmarkIdMap :
                (/\ ~st.bookmarkIdMap[f].open
                 /\ \A k \in DOMAIN st.windowIdMap :
                      ~(st.windowIdMap[k].saved /\ st.windowIdMap[k].savedFolderId = f))
                  => s2.bookmarkIdMap[f] = st.bookmarkIdMap[f]

====
